---- MODULE Spec2Model ----
(***************************************************************************)
(* kmpexp.py: the experiment generator for KaMinPar.  One run reads the    *)
(* configuration, fetches and builds each algorithm once, expands each     *)
(* experiment's sweep into command lines and writes the script files.      *)
(*                                                                         *)
(* A Python string is a sequence of one-character strings, so that the     *)
(* f-strings of the source are concatenations (\o) and two texts are equal *)
(* exactly when their characters are.                                      *)
(***************************************************************************)
EXTENDS Integers, Sequences, FiniteSets, TLC

(***************************************************************************)
(* Bounds of the model.                                                    *)
(***************************************************************************)
\* Tables of the configuration document that are experiments.
MaxExperiments == 2
\* Algorithm tables read over one run.
MaxAlgorithms == 2

(***************************************************************************)
(* Strings.                                                                *)
(***************************************************************************)
\* The characters the model's texts are compared over, in code-point order.
Alphabet == <<" ", "#", "&", "-", ".", "/", "0", "1", "2", "3", "4", "5", "6",
              "7", "8", "9", "=", ">", "A", "D", "E", "F", "G", "H", "I", "K",
              "L", "M", "N", "O", "P", "R", "T", "_", "a", "b", "c", "d", "e",
              "f", "g", "h", "i", "k", "l", "m", "n", "o", "p", "r", "s", "t",
              "u", "v", "w", "x", "y">>

\* ord(c)
Ord(c) == CHOOSE i \in 1..Len(Alphabet) : Alphabet[i] = c

\* a < b for Python strings: by code point, a proper prefix first.
StrLess(a, b) ==
    \E i \in 1..(Len(b)) :
        /\ i <= Len(a) + 1
        /\ \A j \in 1..(i - 1) : a[j] = b[j]
        /\ \/ i = Len(a) + 1
           \/ (i <= Len(a) /\ Ord(a[i]) < Ord(b[i]))

Digit(d) == <<SubSeq(<<"0", "1", "2", "3", "4", "5", "6", "7", "8", "9">>, d + 1, d + 1)[1]>>

RECURSIVE NatStr(_)
NatStr(n) == IF n < 10 THEN Digit(n) ELSE NatStr(n \div 10) \o Digit(n % 10)

\* str(n) of an int, as an f-string formats it.
IntStr(n) == IF n < 0 THEN <<"-">> \o NatStr(0 - n) ELSE NatStr(n)

\* repr of a float.  A float of the model is a number of hundredths h (3 is
\* 0.03): Python prints the shortest text that reads back, which here is the
\* integer part, a point, and the fraction without trailing zeros.
FloatStr(h) ==
    NatStr(h \div 100) \o <<".">> \o
        (IF h % 10 = 0 THEN Digit((h % 100) \div 10)
                       ELSE Digit((h % 100) \div 10) \o Digit(h % 10))

\* " ".join(list)
RECURSIVE Join(_)
Join(list) ==
    IF list = <<>> THEN <<>>
    ELSE IF Len(list) = 1 THEN list[1]
    ELSE list[1] \o <<" ">> \o Join(Tail(list))

\* The index of the last occurrence of c in s, 0 when there is none (rfind + 1).
LastIndex(s, c) ==
    IF \E i \in 1..Len(s) : s[i] = c
    THEN CHOOSE i \in 1..Len(s) : s[i] = c /\ \A j \in (i + 1)..Len(s) : s[j] # c
    ELSE 0

\* os.path.dirname
Dirname(path) == SubSeq(path, 1, LastIndex(path, "/") - 1)

\* Path(path).name
Basename(path) == SubSeq(path, LastIndex(path, "/") + 1, Len(path))

\* Path(path).stem: the name without its last suffix; a name that only starts
\* or ends with its last point has no suffix.
Stem(path) ==
    LET name == Basename(path)
        i == LastIndex(name, ".")
    IN  IF 1 < i /\ i < Len(name) THEN SubSeq(name, 1, i - 1) ELSE name

\* The directory the generator runs in.
Cwd == <<"/", "w">>

\* os.path.abspath of the paths the generator builds: "./x" and absolute ones.
Abspath(path) ==
    IF path # <<>> /\ path[1] = "/" THEN path
    ELSE IF Len(path) >= 2 /\ path[1] = "." /\ path[2] = "/" THEN Cwd \o Tail(path)
    ELSE Cwd \o <<"/">> \o path

\* os.path.join(dir, file)
PathJoin(dir, file) == dir \o <<"/">> \o file

\* The directories makedirs(path, exist_ok=True) leaves in place.
Makedirs(path) ==
    {path} \cup {SubSeq(path, 1, i - 1) : i \in {j \in 2..Len(path) : path[j] = "/"}}

RECURSIVE Concat(_)
\* The concatenation of a sequence of sequences: what nested loops append.
Concat(ss) == IF Len(ss) = 0 THEN <<>> ELSE Head(ss) \o Concat(Tail(ss))

\* sorted(set of strings), ascending.
RECURSIVE SortStrings(_)
SortStrings(S) ==
    IF S = {} THEN <<>>
    ELSE LET m == CHOOSE x \in S : \A y \in S \ {x} : StrLess(x, y)
         IN  <<m>> \o SortStrings(S \ {m})

(***************************************************************************)
(* The configuration document (tomllib.load).  A value of a table is       *)
(* [present, type, val]: whether the key is there, the Python type of its  *)
(* value, and the value.  An item of the document or of an experiment is a *)
(* table or something else (table = FALSE).                                *)
(***************************************************************************)
Absent(v) == [present |-> FALSE, type |-> "none", val |-> v]
Value(t, v) == [present |-> TRUE, type |-> t, val |-> v]

\* The type of a list whose elements all have type t.
ListOf(t) == CASE t = "int" -> "list of int"
               [] t = "float" -> "list of float"
               [] t = "str" -> "list of str"
               [] OTHER -> "list"

\* Line 67: whether fetch_check_value returns (TRUE) or calls err (FALSE).
fetch_check_value(value, type) == value.present /\ value.type = type

\* Line 78: whether fetch_check_values returns or calls err.  An empty list
\* passes for every element type.
fetch_check_values(value, type) ==
    /\ value.present
    /\ \/ value.type = ListOf(type)
       \/ (value.type \in {ListOf("int"), ListOf("float"), ListOf("str")} /\ value.val = <<>>)

\* Lines 89-97: ok is FALSE where fetch_or_default calls err.
fetch_or_default(value, default, type) ==
    [ok |-> (~value.present) \/ value.type = type,
     value |-> IF value.present THEN value.val ELSE default]

(***************************************************************************)
(* The hash of the arguments.  md5 is taken to be free of collisions: the   *)
(* digest of a string is one symbol per distinct string, and the digest of *)
(* the concatenated digests is their concatenation.                        *)
(***************************************************************************)
\* Line 311: the length of a branch value that is taken for a commit id.
CommitIdLength == 40

HeapFlag == <<"-", "D", "K", "A", "M", "I", "N", "P", "A", "R", "_", "E", "N", "A", "B", "L", "E", "_", "H", "E", "A", "P", "_", "P", "R", "O", "F", "I", "L", "I", "N", "G", "=", "O", "n">>
AssertFlag == <<"-", "D", "K", "A", "M", "I", "N", "P", "A", "R", "_", "A", "S", "S", "E", "R", "T", "I", "O", "N", "_", "L", "E", "V", "E", "L", "=", "l", "i", "g", "h", "t">>
MainBranch == <<"m", "a", "i", "n">>
\* A commit id: 40 characters.
PinnedBranch == [i \in 1..CommitIdLength |-> IF i % 2 = 0 THEN "a" ELSE "1"]
\* A branch name one character short of a commit id.
LongBranch == [i \in 1..(CommitIdLength - 1) |-> "b"]
RepoUrl == <<"u">>
ForkUrl == <<"v">>
FooArg == <<"-", "-", "f", "o", "o">>
BarArg == <<"-", "-", "b", "a", "r">>

Hashed == <<RepoUrl, ForkUrl, MainBranch, PinnedBranch, LongBranch, HeapFlag, AssertFlag,
            FooArg, BarArg, <<"K", "a", "M", "i", "n", "P", "a", "r">>, <<"d", "K", "a", "M", "i", "n", "P", "a", "r">>>>

\* hashlib.md5(s.encode("utf-8")).digest()
Md5(s) ==
    LET i == CHOOSE i \in 1..Len(Hashed) : Hashed[i] = s
    IN  <<SubSeq(<<"0", "1", "2", "3", "4", "5", "6", "7", "8", "9", "a", "b", "c", "d", "e", "f">>, i, i)[1]>>

\* hash() as it would be if the compile flags were left out of the identity.
hash_without_flags(git_url, branch, compile_flags) == Md5(git_url) \o Md5(branch)

hash(git_url, branch, compile_flags) ==
    Md5(git_url) \o Md5(branch) \o Concat([i \in 1..Len(compile_flags) |-> Md5(compile_flags[i])])

(***************************************************************************)
(* System and CallWrapper.                                                 *)
(***************************************************************************)
Systems == {"generic", "background", "i10-exclusive", "i10-nonexclusive"}
CallWrappers == {"none", "taskset", "mpi"}

\* System.generate_wrapper: the lines print() writes for the returned text.
\* An unknown system calls err: see SystemKnown.
SystemWrapper(system, cmd) ==
    CASE system = "generic" -> << <<"b", "a", "s", "h", " ">> \o cmd >>
      [] system = "background" -> << <<"n", "o", "h", "u", "p", " ", "b", "a", "s", "h", " ", "-", "-", " ">> \o cmd \o <<" ", "&">>, <<"d", "i", "s", "o", "w", "n">> >>
      [] system = "i10-exclusive" -> << <<"n", "o", "h", "u", "p", " ", "e", "x", "c", "l", "u", "s", "i", "v", "e", " ", "b", "a", "s", "h", " ", "-", "-", " ">> \o cmd \o <<" ", "&">>, <<"d", "i", "s", "o", "w", "n">> >>
      [] system = "i10-nonexclusive" -> << <<"n", "o", "h", "u", "p", " ", "n", "o", "n", "e", "x", "c", "l", "u", "s", "i", "v", "e", " ", "b", "a", "s", "h", " ", "-", "-", " ">> \o cmd \o <<" ", "&">>, <<"d", "i", "s", "o", "w", "n">> >>
      [] OTHER -> <<>>

SystemKnown(system) == system \in Systems

\* CallWrapper.generate_wrapper.  An unknown wrapper calls err: see
\* CallWrapperKnown.
CallWrapperWrap(call_wrapper, num_processes, num_threads, cmd) ==
    CASE call_wrapper = "none" -> cmd
      [] call_wrapper = "taskset" -> <<"t", "a", "s", "k", "s", "e", "t", " ", "-", "c", " ", "0", "-">> \o IntStr(num_threads - 1) \o <<" ">> \o cmd
      [] call_wrapper = "mpi" ->
            <<"m", "p", "i", "r", "u", "n", " ", "-", "n", " ">> \o IntStr(num_processes) \o <<" ", "-", "-", "b", "i", "n", "d", "-", "t", "o", " ", "c", "o", "r", "e", " ", "-", "-", "m", "a", "p", "-", "b", "y", " ", "s", "o", "c", "k", "e", "t", ":", "P", "E", "=">>
                \o IntStr(num_threads) \o <<" ">> \o cmd
      [] OTHER -> <<>>

CallWrapperKnown(call_wrapper) == call_wrapper \in CallWrappers

(***************************************************************************)
(* Algorithm.                                                              *)
(***************************************************************************)
\* Algorithm.__init__, lines 298-302: the key whose check calls err, "" when
\* every check passes.
AlgorithmError(config) ==
    CASE ~fetch_check_value(config.git_url, "str") -> "git-url"
      [] ~fetch_or_default(config.branch, MainBranch, "str").ok -> "branch"
      [] ~fetch_or_default(config.target, <<"K", "a", "M", "i", "n", "P", "a", "r">>, "str").ok -> "target"
      [] ~fetch_check_values(config.compile_flags, "str") -> "compile-flags"
      [] ~fetch_check_values(config.args, "str") -> "args"
      [] OTHER -> ""

\* Algorithm.__init__ on a table that passes the checks.
Algorithm(name, config) ==
    LET branch == fetch_or_default(config.branch, MainBranch, "str").value
        h == hash(config.git_url.val, branch, config.compile_flags.val)
    IN  [name |-> name,
         git_url |-> config.git_url.val,
         branch |-> branch,
         target |-> fetch_or_default(config.target, <<"K", "a", "M", "i", "n", "P", "a", "r">>, "str").value,
         compile_flags |-> config.compile_flags.val,
         args |-> config.args.val,
         hash |-> h,
         src_dir |-> Abspath(<<".", "/", "s", "r", "c", "/">> \o h)]

\* The object before any algorithm was constructed.
NoAlgorithm ==
    [name |-> <<>>, git_url |-> <<>>, branch |-> <<>>, target |-> <<>>,
     compile_flags |-> <<>>, args |-> <<>>, hash |-> <<>>, src_dir |-> <<>>]

\* One command handed to exec().
Command(program, verb, dir, arg) ==
    [program |-> program, verb |-> verb, dir |-> dir, arg |-> arg]

\* fetch() as it would be if a pinned branch were updated like any other.
fetch_always_updates(algorithm, existing) ==
    LET update == <<Command("git", "pull", algorithm.src_dir, <<>>),
                    Command("git", "submodule update", algorithm.src_dir, <<>>),
                    Command("git", "checkout", algorithm.src_dir, algorithm.branch)>>
    IN  IF algorithm.src_dir \notin existing
        THEN [log |-> "initialize",
              cmds |-> <<Command("git", "clone", algorithm.src_dir, algorithm.git_url)>> \o update]
        ELSE [log |-> "update", cmds |-> update]

\* Algorithm.fetch: the message it logs and the commands it hands to exec, in
\* order, given the directories that exist.
fetch(algorithm, existing) ==
    LET detached_head == Len(algorithm.branch) = CommitIdLength
        update == <<Command("git", "pull", algorithm.src_dir, <<>>),
                    Command("git", "submodule update", algorithm.src_dir, <<>>),
                    Command("git", "checkout", algorithm.src_dir, algorithm.branch)>>
    IN  IF detached_head /\ algorithm.src_dir \in existing
        THEN [log |-> "skipping fetch", cmds |-> <<>>]
        ELSE IF algorithm.src_dir \notin existing
        THEN [log |-> "initialize",
              cmds |-> <<Command("git", "clone", algorithm.src_dir, algorithm.git_url)>> \o update]
        ELSE [log |-> "update", cmds |-> update]

\* Algorithm.build: the commands it hands to exec.
build(algorithm) ==
    <<Command("cmake", "configure", algorithm.src_dir, Join(algorithm.compile_flags)),
      Command("cmake", "build", algorithm.src_dir, algorithm.target)>>

\* Algorithm.binary_path
binary_path(algorithm) ==
    IF algorithm.target = <<"K", "a", "M", "i", "n", "P", "a", "r">>
    THEN Abspath(algorithm.src_dir \o <<"/", "b", "u", "i", "l", "d", "/", "a", "p", "p", "s", "/", "K", "a", "M", "i", "n", "P", "a", "r">>)
    ELSE IF algorithm.target = <<"d", "K", "a", "M", "i", "n", "P", "a", "r">>
    THEN Abspath(algorithm.src_dir \o <<"/", "b", "u", "i", "l", "d", "/", "a", "p", "p", "s", "/", "d", "K", "a", "M", "i", "n", "P", "a", "r">>)
    ELSE Abspath(algorithm.src_dir \o <<"/", "b", "u", "i", "l", "d", "/", "b", "e", "n", "c", "h", "m", "a", "r", "k", "s", "/">> \o algorithm.target)

\* Algorithm.heap_profiled
heap_profiled(algorithm) ==
    \E i \in 1..Len(algorithm.compile_flags) : algorithm.compile_flags[i] = HeapFlag

(***************************************************************************)
(* Experiment.                                                             *)
(***************************************************************************)
\* The directories that store graphs, with the regular files of each.
GraphStore ==
    ( <<"/", "g">> :> { <<"a", ".", "g">>, <<"b", ".", "g">> } ) @@ ( <<"/", "h">> :> { <<"a", ".", "g">>, <<"a", ".", "m">> } ) @@ ( <<"/", "e">> :> {} )

\* Experiment.__init__, lines 173-192: what err is called for, "" when the
\* experiment is constructed.
ExperimentError(config) ==
    CASE ~fetch_or_default(config.timeout, 0, "int").ok -> "timeout"
      [] ~fetch_check_values(config.processes, "int") -> "processes"
      [] ~fetch_check_values(config.threads, "int") -> "threads"
      [] ~fetch_check_values(config.seeds, "int") -> "seeds"
      [] ~fetch_check_values(config.ks, "int") -> "ks"
      [] ~fetch_check_values(config.epsilons, "float") -> "epsilons"
      [] ~fetch_check_value(config.graphs, "str") -> "graphs"
      [] config.graphs.val \notin DOMAIN GraphStore -> "no directory"
      [] GraphStore[config.graphs.val] = {} -> "no graphs"
      [] OTHER -> ""

\* Experiment.__init__ on a table that passes the checks.  config keeps the
\* items the checks did not consume: the algorithms.
Experiment(name, config) ==
    [name |-> name,
     timeout |-> fetch_or_default(config.timeout, 0, "int").value,
     processes |-> config.processes.val,
     threads |-> config.threads.val,
     seeds |-> config.seeds.val,
     ks |-> config.ks.val,
     epsilons |-> config.epsilons.val,
     graphs |-> SortStrings({Abspath(PathJoin(config.graphs.val, file)) :
                                file \in GraphStore[config.graphs.val]}),
     config |-> config.algorithms]

\* The object before any experiment was constructed.
NoExperiment ==
    [name |-> <<>>, timeout |-> 0, processes |-> <<>>, threads |-> <<>>, seeds |-> <<>>,
     ks |-> <<>>, epsilons |-> <<>>, graphs |-> <<>>, config |-> <<>>]

StarterName(experiment_name) == <<".", "/", "s", "c", "r", "i", "p", "t", "s", "/">> \o experiment_name \o <<"/", "s", "t", "a", "r", "t", "e", "r", ".", "s", "h">>
ScriptName(experiment_name, algo_name) ==
    <<".", "/", "s", "c", "r", "i", "p", "t", "s", "/">> \o experiment_name \o <<"/">> \o algo_name \o <<".", "s", "h">>
LogDir(experiment_name, algo_name) == <<".", "/", "l", "o", "g", "s", "/">> \o experiment_name \o <<"/">> \o algo_name

\* Lines 271-273.
LogFile(log_dir, graph, num_processes, num_threads, seed, epsilon, k) ==
    Abspath(log_dir \o <<"/">> \o Stem(graph) \o <<"_", "_", "_", "P", "1", "x">> \o IntStr(num_processes) \o <<"x">>
            \o IntStr(num_threads) \o <<"_", "s", "e", "e", "d">> \o IntStr(seed) \o <<"_", "e", "p", "s">> \o FloatStr(epsilon)
            \o <<"_", "k">> \o IntStr(k) \o <<".", "l", "o", "g">>)

\* Lines 264-274: the command before it is wrapped.
BaseCommand(algorithm, log_dir, graph, num_processes, num_threads, k, epsilon, seed) ==
    LET arguments == <<"-", "T", " ", "-", "G", " ">> \o graph \o <<" ", "-", "t", " ">> \o IntStr(num_threads) \o <<" ", "-", "k", " ">> \o IntStr(k)
                        \o <<" ", "-", "e", " ">> \o FloatStr(epsilon) \o <<" ", "-", "s", " ">> \o IntStr(seed)
        generated_arguments == IF heap_profiled(algorithm) THEN <<"-", "H", " ">> \o arguments ELSE arguments
        specified_arguments == Join(algorithm.args)
        log_file == LogFile(log_dir, graph, num_processes, num_threads, seed, epsilon, k)
    IN  binary_path(algorithm) \o <<" ">> \o generated_arguments \o <<" ">> \o specified_arguments
            \o <<" ", ">", ">", " ">> \o log_file \o <<" ", "2", ">", "&", "1">>

\* The wrapping as it would be if the timeout were applied last.
WrapCommandTimeoutOutside(call_wrapper, time_cmd, timeout, num_processes, num_threads, cmd) ==
    LET wrapped == CallWrapperWrap(call_wrapper, num_processes, num_threads, cmd)
        timed == IF time_cmd # <<>> THEN time_cmd \o <<" ", "-", "v", " ">> \o wrapped ELSE wrapped
    IN  IF timeout > 0 THEN <<"t", "i", "m", "e", "o", "u", "t", " ", "-", "v", " ">> \o IntStr(timeout) \o <<"m", " ">> \o timed ELSE timed

\* Lines 276-282.
WrapCommand(call_wrapper, time_cmd, timeout, num_processes, num_threads, cmd) ==
    LET wrapped == CallWrapperWrap(call_wrapper, num_processes, num_threads, cmd)
        timed == IF timeout > 0 THEN <<"t", "i", "m", "e", "o", "u", "t", " ", "-", "v", " ">> \o IntStr(timeout) \o <<"m", " ">> \o wrapped
                 ELSE wrapped
    IN  IF time_cmd # <<>> THEN time_cmd \o <<" ", "-", "v", " ">> \o timed ELSE timed

\* The loops as they would be if the command were appended after the loop
\* over the seeds instead of inside it: one record per epsilon, of the last seed.
GenerateCommandsAfterSeeds(experiment, algorithm, call_wrapper, time_cmd) ==
    LET log_dir == LogDir(experiment.name, algorithm.name)
    IN  Concat([g \in 1..Len(experiment.graphs) |->
        Concat([p \in 1..Len(experiment.processes) |->
        Concat([t \in 1..Len(experiment.threads) |->
        Concat([k \in 1..Len(experiment.ks) |->
        Concat([e \in 1..Len(experiment.epsilons) |->
               [s \in {i \in 1..1 : experiment.seeds # <<>>} |->
                   <<experiment.graphs[g],
                     WrapCommand(call_wrapper, time_cmd, experiment.timeout,
                                 experiment.processes[p], experiment.threads[t],
                                 BaseCommand(algorithm, log_dir, experiment.graphs[g],
                                             experiment.processes[p], experiment.threads[t],
                                             experiment.ks[k], experiment.epsilons[e],
                                             experiment.seeds[Len(experiment.seeds)]))>>]])])])])])

\* Lines 258-285: the (graph, cmd) records of one algorithm, in the order the
\* loops produce them.
GenerateCommands(experiment, algorithm, call_wrapper, time_cmd) ==
    LET log_dir == LogDir(experiment.name, algorithm.name)
    IN  Concat([g \in 1..Len(experiment.graphs) |->
        Concat([p \in 1..Len(experiment.processes) |->
        Concat([t \in 1..Len(experiment.threads) |->
        Concat([k \in 1..Len(experiment.ks) |->
        Concat([e \in 1..Len(experiment.epsilons) |->
               [s \in 1..Len(experiment.seeds) |->
                   <<experiment.graphs[g],
                     WrapCommand(call_wrapper, time_cmd, experiment.timeout,
                                 experiment.processes[p], experiment.threads[t],
                                 BaseCommand(algorithm, log_dir, experiment.graphs[g],
                                             experiment.processes[p], experiment.threads[t],
                                             experiment.ks[k], experiment.epsilons[e],
                                             experiment.seeds[s]))>>]])])])])])

\* The number of sweep tuples of an experiment.
SweepSize(experiment) ==
    Len(experiment.graphs) * Len(experiment.processes) * Len(experiment.threads)
        * Len(experiment.ks) * Len(experiment.epsilons) * Len(experiment.seeds)

\* The sort as it would be if it were not stable: a record goes before the
\* records of its graph.
RECURSIVE SortCommandsUnstable(_)
SortCommandsUnstable(list) ==
    IF Len(list) = 0 THEN <<>>
    ELSE LET rest == SortCommandsUnstable(SubSeq(list, 1, Len(list) - 1))
             x == list[Len(list)]
             n == Cardinality({i \in 1..Len(rest) : StrLess(rest[i][1], x[1])})
         IN  SubSeq(rest, 1, n) \o <<x>> \o SubSeq(rest, n + 1, Len(rest))

\* commands.sort(key=lambda x: x[0]): a stable sort, here by insertion after
\* the records whose graph is not greater.
RECURSIVE SortCommands(_)
SortCommands(list) ==
    IF Len(list) = 0 THEN <<>>
    ELSE LET rest == SortCommands(SubSeq(list, 1, Len(list) - 1))
             x == list[Len(list)]
             n == Cardinality({i \in 1..Len(rest) : ~StrLess(x[1], rest[i][1])})
         IN  SubSeq(rest, 1, n) \o <<x>> \o SubSeq(rest, n + 1, Len(rest))

(***************************************************************************)
(* The configuration documents of the model.  A document is the top-level  *)
(* settings and its other items in order, each item the table of one       *)
(* experiment or something else; the k-th item is named Ek and the k-th    *)
(* item left in an experiment's table Ak.                                  *)
(***************************************************************************)
ExperimentName(k) == <<"E">> \o IntStr(k)
AlgorithmName(k) == <<"A">> \o IntStr(k)

AlgorithmTable(git_url, branch, target, compile_flags, args) ==
    [table |-> TRUE, git_url |-> git_url, branch |-> branch, target |-> target,
     compile_flags |-> compile_flags, args |-> args]

ExperimentTable(graphs, timeout, processes, threads, ks, epsilons, seeds, algorithms) ==
    [table |-> TRUE, graphs |-> graphs, timeout |-> timeout, processes |-> processes,
     threads |-> threads, ks |-> ks, epsilons |-> epsilons, seeds |-> seeds,
     algorithms |-> algorithms]

Document(system, call_wrapper, time_cmd, items) ==
    [system |-> system, call_wrapper |-> call_wrapper, time_cmd |-> time_cmd, items |-> items]

Ints(list) == Value("list of int", list)
Floats(list) == Value("list of float", list)
Strs(list) == Value("list of str", list)
Str(s) == Value("str", s)

\* How an algorithm is invoked: (target, args).
Invocations == {<<Absent(<<>>), <<FooArg>>>>, <<Str(<<"d", "K", "a", "M", "i", "n", "P", "a", "r">>), <<BarArg, FooArg>>>>}

\* Algorithm tables of one repository and branch: with and without the heap
\* profiler, each invoked either way.
AlgorithmTables ==
    {AlgorithmTable(Str(RepoUrl), Absent(<<>>), inv[1], Strs(compile_flags), Strs(inv[2])) :
        compile_flags \in {<<>>, <<HeapFlag>>}, inv \in Invocations}

BaseAlgorithm == AlgorithmTable(Str(RepoUrl), Absent(<<>>), Absent(<<>>), Strs(<<>>), Strs(<<FooArg>>))

\* An algorithm pinned to a commit.
PinnedAlgorithm ==
    AlgorithmTable(Str(ForkUrl), Str(PinnedBranch), Str(<<"l", "p", "_", "b", "e", "n", "c", "h">>), Strs(<<AssertFlag>>),
                   Strs(<<>>))

\* An algorithm on a branch whose name is one character short of a commit id.
LongAlgorithm == [PinnedAlgorithm EXCEPT !.branch = Str(LongBranch)]

\* An experiment of one sweep tuple per graph.
BaseExperiment(graphs, algorithms) ==
    ExperimentTable(Str(graphs), Absent(0), Ints(<<1>>), Ints(<<1>>), Ints(<<2>>), Floats(<<3>>),
                    Ints(<<0>>), algorithms)

GraphDirectories == { <<"/", "g">>, <<"/", "h">> }

\* Documents that vary the top-level settings and the timeout of one
\* experiment, with and without a sweep and an algorithm.
WrappingDocuments ==
    {Document(system, call_wrapper, time_cmd,
              <<ExperimentTable(Str(<<"/", "g">>), timeout, Ints(<<2>>), Ints(<<4>>), Ints(<<2>>),
                                Floats(<<3>>), Ints(seeds), algorithms)>>) :
        system \in Systems \cup {"slurm"},
        call_wrapper \in CallWrappers \cup {"numactl"},
        time_cmd \in {<<>>, <<"t", "i", "m", "e">>},
        timeout \in {Absent(0), Value("int", 5)},
        seeds \in {<<>>, <<0>>},
        algorithms \in {<<>>, <<BaseAlgorithm>>}}

\* Documents that vary the sweep lists of one experiment of one algorithm.
SweepDocuments ==
    {Document("generic", "none", <<>>,
              <<ExperimentTable(Str(graphs), Absent(0), Ints(processes), Ints(threads), Ints(ks),
                                Floats(epsilons), Ints(seeds), <<algo>>)>>) :
        algo \in {PinnedAlgorithm, LongAlgorithm},
        graphs \in GraphDirectories,
        processes \in {<<1>>, <<1, 2>>},
        threads \in {<<4>>, <<1, 2>>},
        ks \in {<<2>>, <<2, 4>>},
        epsilons \in {<<3>>, <<3, 10>>},
        seeds \in {<<>>, <<0>>, <<0, 1>>}}

\* The sequences over S of length at most n.
SeqsUpTo(S, n) == UNION {[1..m -> S] : m \in 0..n}

\* Documents of at most MaxExperiments experiments over at most MaxAlgorithms
\* algorithm tables: the tables in order, cut into the experiments' shares.
BuildDocuments ==
    {Document("generic", "none", <<>>,
              [k \in 1..Len(graphs) |->
                  BaseExperiment(graphs[k],
                      SubSeq(tables,
                             (IF k = 1 THEN 0 ELSE cuts[k - 1]) + 1,
                             IF k = Len(graphs) THEN Len(tables) ELSE cuts[k]))]) :
        <<graphs, tables, cuts>> \in
            {x \in UNION {{<<g, t, c>> : c \in [1..(Len(g) - 1) -> 0..Len(t)]} :
                            g \in SeqsUpTo(GraphDirectories, MaxExperiments),
                            t \in SeqsUpTo(AlgorithmTables, MaxAlgorithms)} :
                \A k \in 1..(Len(x[3]) - 1) : x[3][k] <= x[3][k + 1]}}

\* What one defect does to an experiment's table.
Defects ==
    {"not a table", "no graphs", "no seeds", "no ks", "timeout not int", "seeds not int",
     "graphs not str", "no directory", "empty directory", "algorithm not a table",
     "no git-url", "no args", "branch not str", "compile-flags not str"}

Defective(config, defect) ==
    LET algo(a) == [config EXCEPT !.algorithms = <<a>>]
    IN  CASE defect = "not a table" -> [config EXCEPT !.table = FALSE]
          [] defect = "no graphs" -> [config EXCEPT !.graphs = Absent(<<>>)]
          [] defect = "no seeds" -> [config EXCEPT !.seeds = Absent(<<>>)]
          [] defect = "no ks" -> [config EXCEPT !.ks = Absent(<<>>)]
          [] defect = "timeout not int" -> [config EXCEPT !.timeout = Value("str", 0)]
          [] defect = "seeds not int" -> [config EXCEPT !.seeds = Value("list of float", <<1>>)]
          [] defect = "graphs not str" -> [config EXCEPT !.graphs = Value("int", <<>>)]
          [] defect = "no directory" -> [config EXCEPT !.graphs = Str(<<"/", "n">>)]
          [] defect = "empty directory" -> [config EXCEPT !.graphs = Str(<<"/", "e">>)]
          [] defect = "algorithm not a table" -> algo([BaseAlgorithm EXCEPT !.table = FALSE])
          [] defect = "no git-url" -> algo([BaseAlgorithm EXCEPT !.git_url = Absent(<<>>)])
          [] defect = "no args" -> algo([BaseAlgorithm EXCEPT !.args = Absent(<<>>)])
          [] defect = "branch not str" -> algo([BaseAlgorithm EXCEPT !.branch = Value("int", <<>>)])
          [] defect = "compile-flags not str" ->
                algo([BaseAlgorithm EXCEPT !.compile_flags = Value("list of int", <<BarArg>>)])

\* Documents of two experiments, one of them with one defect.
DefectiveDocuments ==
    {Document("generic", "none", <<>>,
              [k \in 1..2 |-> IF k = place
                              THEN Defective(BaseExperiment(<<"/", "g">>, <<BaseAlgorithm>>), defect)
                              ELSE BaseExperiment(<<"/", "h">>, <<BaseAlgorithm>>)]) :
        place \in 1..2, defect \in Defects}

Documents == WrappingDocuments \cup SweepDocuments \cup BuildDocuments \cup DefectiveDocuments

\* The source directory of every identity of the model.
SourceDirectories ==
    {Algorithm(<<>>, config).src_dir : config \in AlgorithmTables \cup {PinnedAlgorithm, LongAlgorithm}}

\* The directories before the run: of a first run, and of a run after one
\* that fetched every source and wrote its scripts.
InitialDirectories == {{}, SourceDirectories \cup Makedirs(<<".", "/", "s", "c", "r", "i", "p", "t", "s">>)}

(***************************************************************************)
(* The run.                                                                *)
(***************************************************************************)
VARIABLES
    data,               \* the items of the document, in order (line 385)
    system,             \* line 368
    call_wrapper,       \* line 369
    time_cmd,           \* line 370
    generated_sources,  \* line 374
    commands,           \* line 378
    pc,                 \* "main": between experiments; "generate": in Experiment.generate; "exited"
    item,               \* the items of data taken so far
    experiment,         \* the Experiment of line 391
    algo_item,          \* the items of experiment.config taken so far
    algorithm,          \* the Algorithm of line 219
    files,              \* the files the run has opened for writing: name -> lines
    executable,         \* the files handed to make_executable
    dirs,               \* the directories that exist
    execs,              \* the commands handed to exec, in order
    console,            \* the messages of fetch, build and generate_algorithm, in order
    error,              \* what ended the run, "" if nothing
    exit_code

vars == <<data, system, call_wrapper, time_cmd, generated_sources, commands, pc, item,
          experiment, algo_item, algorithm, files, executable, dirs, execs, console, error,
          exit_code>>

Shebang == <<"#", "!", "/", "u", "s", "r", "/", "b", "i", "n", "/", "e", "n", "v", " ", "b", "a", "s", "h">>
SubmitName == <<".", "/", "s", "u", "b", "m", "i", "t", ".", "s", "h">>
SubmitAllName == <<".", "/", "s", "u", "b", "m", "i", "t", "-", "o", "r", "d", "e", "r", "e", "d", ".", "s", "h">>
StarterAllName == <<".", "/", "s", "c", "r", "i", "p", "t", "s", "/", "o", "r", "d", "e", "r", "e", "d", "-", "s", "t", "a", "r", "t", "e", "r", ".", "s", "h">>

\* The lines that print(..., file=f) adds to the open file called name.
WriteLines(fs, name, lines) == [fs EXCEPT ![name] = @ \o lines]

\* open(name, "w"), then the header line.
Open(fs, name) == (name :> <<Shebang>>) @@ fs

Message(event, algo) == [event |-> event, algorithm |-> algo]

\* The state after lines 362-383: the document is loaded, the settings are
\* taken and submit.sh is open.
Init ==
    /\ \E document \in Documents :
        /\ data = document.items
        /\ system = document.system
        /\ call_wrapper = document.call_wrapper
        /\ time_cmd = document.time_cmd
    /\ dirs \in InitialDirectories
    /\ generated_sources = {}
    /\ commands = <<>>
    /\ pc = "main"
    /\ item = 0
    /\ experiment = NoExperiment
    /\ algo_item = 0
    /\ algorithm = NoAlgorithm
    /\ files = Open(<<>>, SubmitName)
    /\ executable = {}
    /\ execs = <<>>
    /\ console = <<>>
    /\ error = ""
    /\ exit_code = 0

\* err(msg): the run ends with exit code 1.
Err(what) ==
    /\ pc' = "exited"
    /\ exit_code' = 1
    /\ error' = what

\* The step as it would be if the starter script were opened before the
\* experiment's table is checked.
ReadExperimentOpensFirst ==
    /\ pc = "main"
    /\ item < Len(data)
    /\ item' = item + 1
    /\ LET config == data[item + 1]
           name == ExperimentName(item + 1)
           problem == IF ~config.table THEN "experiment" ELSE ExperimentError(config)
       IN  /\ dirs' = dirs \cup Makedirs(Dirname(StarterName(name)))
           /\ files' = Open(files, StarterName(name))
           /\ IF problem # ""
              THEN /\ Err(problem)
                   /\ UNCHANGED <<experiment, algo_item>>
              ELSE /\ experiment' = Experiment(name, config)
                   /\ algo_item' = 0
                   /\ pc' = "generate"
                   /\ UNCHANGED <<error, exit_code>>
    /\ UNCHANGED <<data, system, call_wrapper, time_cmd, generated_sources, commands,
                   algorithm, executable, execs, console>>

\* Lines 385-392 and 199-203: the next item of the document is taken, the
\* experiment is constructed and its starter script is opened.
ReadExperiment ==
    /\ pc = "main"
    /\ item < Len(data)
    /\ item' = item + 1
    /\ LET config == data[item + 1]
           name == ExperimentName(item + 1)
           problem == IF ~config.table THEN "experiment" ELSE ExperimentError(config)
       IN  IF problem # ""
           THEN /\ Err(problem)
                /\ UNCHANGED <<experiment, algo_item, files, dirs>>
           ELSE /\ experiment' = Experiment(name, config)
                /\ algo_item' = 0
                /\ dirs' = dirs \cup Makedirs(Dirname(StarterName(name)))
                /\ files' = Open(files, StarterName(name))
                /\ pc' = "generate"
                /\ UNCHANGED <<error, exit_code>>
    /\ UNCHANGED <<data, system, call_wrapper, time_cmd, generated_sources, commands,
                   algorithm, executable, execs, console>>

\* Lines 204-211 and 216-288: the next item of the experiment's table is
\* taken and generate_algorithm runs on it.  failed is the exec call that
\* returns a non-zero exit code, 0 when none does.
GenerateAlgorithm ==
    /\ pc = "generate"
    /\ algo_item < Len(experiment.config)
    /\ algo_item' = algo_item + 1
    /\ LET algo_config == experiment.config[algo_item + 1]
           algo_name == AlgorithmName(algo_item + 1)
           problem == IF ~algo_config.table THEN "algorithm" ELSE AlgorithmError(algo_config)
       IN  IF problem # ""
           THEN /\ Err(problem)
                /\ UNCHANGED <<algorithm, generated_sources, execs, console, dirs, files,
                               executable, commands>>
           ELSE
           LET algo == Algorithm(algo_name, algo_config)
               built == algo.hash \in generated_sources
               fetched == fetch(algo, dirs)
               cmds == IF built THEN <<>> ELSE fetched.cmds \o build(algo)
               script_name == ScriptName(experiment.name, algo_name)
               log_dir == LogDir(experiment.name, algo_name)
           IN  \E failed \in 0..Len(cmds) :
               LET cloned == ~built /\ fetched.log = "initialize" /\ failed # 1
                   building == ~built /\ (failed = 0 \/ failed > Len(fetched.cmds))
               IN  /\ algorithm' = algo
                   /\ generated_sources' = generated_sources \cup {algo.hash}
                   /\ execs' = execs \o SubSeq(cmds, 1, IF failed = 0 THEN Len(cmds) ELSE failed)
                   /\ console' = console
                        \o (IF built THEN <<Message("already built", algo)>>
                                     ELSE <<Message(fetched.log, algo)>>)
                        \o (IF building THEN <<Message("build", algo)>> ELSE <<>>)
                        \o (IF failed = 0 THEN <<Message("generating", algo)>> ELSE <<>>)
                   /\ dirs' = dirs
                        \cup (IF cloned THEN {algo.src_dir} ELSE {})
                        \cup (IF failed = 0 THEN Makedirs(Dirname(script_name)) \cup Makedirs(log_dir)
                                            ELSE {})
                   /\ IF failed # 0
                      THEN /\ Err("exec")
                           /\ UNCHANGED <<files, executable, commands>>
                      ELSE IF SweepSize(experiment) > 0 /\ ~CallWrapperKnown(call_wrapper)
                      THEN /\ Err("call wrapper")
                           /\ files' = Open(files, script_name)
                           /\ UNCHANGED <<executable, commands>>
                      ELSE /\ commands' = commands
                                \o GenerateCommands(experiment, algo, call_wrapper, time_cmd)
                           /\ files' = WriteLines(WriteLines(Open(files, script_name), script_name,
                                            [i \in 1..(Len(commands') - Len(commands)) |->
                                                commands'[Len(commands) + i][2]]),
                                        StarterName(experiment.name),
                                        << <<"b", "a", "s", "h", " ">> \o Abspath(script_name) >>)
                           /\ executable' = executable \cup {script_name}
                           /\ UNCHANGED <<pc, error, exit_code>>
    /\ UNCHANGED <<data, system, call_wrapper, time_cmd, item, experiment>>

\* Lines 213-214 and 394: the experiment's table is exhausted, its starter is
\* made executable and its line is written to submit.sh.
EndExperiment ==
    /\ pc = "generate"
    /\ algo_item = Len(experiment.config)
    /\ executable' = executable \cup {StarterName(experiment.name)}
    /\ IF SystemKnown(system)
       THEN /\ files' = WriteLines(files, SubmitName,
                              SystemWrapper(system, Abspath(StarterName(experiment.name))))
            /\ pc' = "main"
            /\ UNCHANGED <<error, exit_code>>
       ELSE /\ Err("system")
            /\ UNCHANGED files
    /\ UNCHANGED <<data, system, call_wrapper, time_cmd, generated_sources, commands, item,
                   experiment, algo_item, algorithm, dirs, execs, console>>

\* Lines 395-411: the document is exhausted; the commands are sorted and the
\* ordered scripts are written.
Finish ==
    /\ pc = "main"
    /\ item = Len(data)
    /\ commands' = SortCommands(commands)
    /\ IF ~SystemKnown(system)
       THEN /\ Err("system")
            /\ files' = Open(files, SubmitAllName)
            /\ executable' = executable \cup {SubmitName}
       ELSE IF Dirname(StarterAllName) \notin dirs
       THEN /\ Err("FileNotFoundError")
            /\ files' = WriteLines(Open(files, SubmitAllName), SubmitAllName,
                              SystemWrapper(system, StarterAllName))
            /\ executable' = executable \cup {SubmitName}
       ELSE /\ files' = WriteLines(Open(WriteLines(Open(files, SubmitAllName), SubmitAllName,
                                                   SystemWrapper(system, StarterAllName)),
                                        StarterAllName),
                                   StarterAllName,
                                   [i \in 1..Len(commands) |-> commands'[i][2]])
            /\ executable' = executable \cup {SubmitName, SubmitAllName}
            /\ pc' = "exited"
            /\ exit_code' = 0
            /\ UNCHANGED error
    /\ UNCHANGED <<data, system, call_wrapper, time_cmd, generated_sources, item, experiment,
                   algo_item, algorithm, dirs, execs, console>>

Next == ReadExperiment \/ GenerateAlgorithm \/ EndExperiment \/ Finish

Spec == Init /\ [][Next]_vars

(***************************************************************************)
(* Properties.                                                             *)
(***************************************************************************)
\* The script of the algorithm constructed last.
CurrentScript == ScriptName(experiment.name, algorithm.name)

\* generate_algorithm has written the script of the current algorithm of the
\* current experiment.
ScriptWritten ==
    /\ algo_item >= 1
    /\ algorithm.name = AlgorithmName(algo_item)
    /\ CurrentScript \in executable

IsPrefix(p, s) == Len(p) <= Len(s) /\ SubSeq(s, 1, Len(p)) = p

IsInfix(p, s) == \E k \in 0..(Len(s) - Len(p)) : SubSeq(s, k + 1, k + Len(p)) = p

\* C1: the step in which generate_algorithm writes an algorithm's script
\* writes, after the header line, as many command lines as the product of the
\* sizes of the experiment's graphs, processes, threads, ks, epsilons and
\* seeds, and appends as many records to commands.
C1_CommandCount ==
    [][LET script == ScriptName(experiment'.name, algorithm'.name)
           product == Len(experiment'.graphs) * Len(experiment'.processes)
                        * Len(experiment'.threads) * Len(experiment'.ks)
                        * Len(experiment'.epsilons) * Len(experiment'.seeds)
       IN  (script \in executable' /\ script \notin executable)
               => /\ Len(files'[script]) = 1 + product
                  /\ files'[script][1] = Shebang
                  /\ Len(commands') = Len(commands) + product]_vars

\* A script was written for a sweep that has two graphs, processes, ks and seeds.
C1_Witness ==
    /\ ScriptWritten
    /\ Len(experiment.graphs) = 2
    /\ Len(experiment.processes) = 2
    /\ Len(experiment.ks) = 2
    /\ Len(experiment.seeds) = 2
    /\ Len(files[CurrentScript]) >= 17

Identity(algo) == <<algo.git_url, algo.branch, algo.compile_flags>>
FetchEvents == {"skipping fetch", "initialize", "update"}

\* C2: over a run, fetch() and build() are each invoked at most once per
\* identity (git-url, branch, compile-flags); every algorithm that skips them
\* or generates calls comes after the fetch (and the build) of its identity, so
\* they are invoked at the first algorithm with that identity; build follows
\* the fetch of the same algorithm; and the script of an algorithm carries its
\* own args in every command.
C2_FetchAndBuildOnce ==
    LET n == Len(console)
        fetches == {i \in 1..n : console[i].event \in FetchEvents}
        builds == {i \in 1..n : console[i].event = "build"}
        same(i, j) == Identity(console[i].algorithm) = Identity(console[j].algorithm)
    IN  /\ \A i \in fetches : \A j \in fetches : same(i, j) => i = j
        /\ \A i \in builds : \A j \in builds : same(i, j) => i = j
        /\ \A i \in builds : (i - 1) \in fetches /\ console[i - 1].algorithm = console[i].algorithm
        /\ \A i \in 1..n :
            console[i].event = "already built" =>
                /\ \E j \in fetches : j < i /\ same(i, j)
                /\ \E j \in builds : j < i /\ same(i, j)
                /\ i < n /\ console[i + 1] = Message("generating", console[i].algorithm)
        /\ \A i \in 1..n :
            console[i].event = "generating" =>
                /\ \E j \in fetches : j < i /\ same(i, j)
                /\ \E j \in builds : j < i /\ same(i, j)
        /\ ScriptWritten =>
            \A k \in 2..Len(files[CurrentScript]) :
                IsInfix(<<" ">> \o Join(algorithm.args) \o <<" ", ">", ">", " ">>, files[CurrentScript][k])

\* An algorithm of a second experiment skipped fetch and build because an
\* algorithm of the first one, with other args, has the same identity, and its
\* script was written.
C2_Witness ==
    /\ ScriptWritten
    /\ item = 2
    /\ Len(files[CurrentScript]) >= 2
    /\ \E i \in 1..Len(console) : \E j \in 1..Len(console) :
        /\ i < j
        /\ console[i].event = "generating"
        /\ console[j] = Message("already built", algorithm)
        /\ Identity(console[i].algorithm) = Identity(algorithm)
        /\ console[i].algorithm.args # algorithm.args

\* The values of a list.
Range(list) == {list[i] : i \in 1..Len(list)}

\* C3: for the experiment and algorithm of a written script, any two distinct
\* sweep tuples (graph, processes, threads, k, epsilon, seed) have different
\* log files.
C3_LogFilesInjective ==
    ScriptWritten =>
        LET tuples == Range(experiment.graphs) \X Range(experiment.processes)
                        \X Range(experiment.threads) \X Range(experiment.ks)
                        \X Range(experiment.epsilons) \X Range(experiment.seeds)
            log_file(x) == LogFile(LogDir(experiment.name, algorithm.name),
                                   x[1], x[2], x[3], x[6], x[5], x[4])
        IN  \A x \in tuples : \A y \in tuples : x # y => log_file(x) # log_file(y)

\* C4: the step that completes the run leaves in scripts/ordered-starter.sh,
\* after the header line, the commands of the sorted records; their graphs
\* never decrease, and the records of one graph keep the order in which they
\* were generated.
C4_OrderedStarter ==
    [][(pc = "main" /\ pc' = "exited" /\ exit_code' = 0) =>
        LET lines == files'[StarterAllName]
        IN  /\ Len(lines) = 1 + Len(commands)
            /\ Len(commands') = Len(commands)
            /\ \A i \in 1..Len(commands') : lines[i + 1] = commands'[i][2]
            /\ \A i \in 1..(Len(commands') - 1) : ~StrLess(commands'[i + 1][1], commands'[i][1])
            /\ \A i \in 1..Len(commands) :
                LET of_graph(record) == record[1] = commands[i][1]
                IN  SelectSeq(commands', of_graph) = SelectSeq(commands, of_graph)]_vars

\* A completed run whose ordered script starts with the first command of one
\* algorithm's script and goes on with a command of another script: the sort
\* moved commands.
C4_Witness ==
    /\ pc = "exited"
    /\ exit_code = 0
    /\ ScriptWritten
    /\ Len(files[CurrentScript]) >= 3
    /\ Len(files[StarterAllName]) >= 5
    /\ \E name \in DOMAIN files :
        /\ name \in executable
        /\ name # CurrentScript
        /\ Len(files[name]) >= 3
        /\ files[StarterAllName][2] = files[name][2]
        /\ files[StarterAllName][3] = files[CurrentScript][2]

\* C5: every command line of a written script is the base command of its
\* sweep tuple wrapped by the call wrapper innermost, then by 'timeout -v <N>m '
\* when the timeout N is positive, then by '<time-cmd> -v ' when time-cmd is not
\* empty; with timeout 5, a time-cmd and the taskset wrapper with 4 threads
\* the line is '<time-cmd> -v timeout -v 5m taskset -c 0-3 <base-command>'.
C5_WrappingOrder ==
    ScriptWritten =>
        LET lines == files[CurrentScript]
            S == Len(experiment.seeds)
            E == Len(experiment.epsilons)
            K == Len(experiment.ks)
            T == Len(experiment.threads)
            P == Len(experiment.processes)
            timing == IF time_cmd = <<>> THEN <<>> ELSE time_cmd \o <<" ", "-", "v", " ">>
            limit == IF experiment.timeout > 0
                     THEN <<"t", "i", "m", "e", "o", "u", "t", " ", "-", "v", " ">> \o IntStr(experiment.timeout) \o <<"m", " ">>
                     ELSE <<>>
            call(p, t) == CASE call_wrapper = "none" -> <<>>
                            [] call_wrapper = "taskset" -> <<"t", "a", "s", "k", "s", "e", "t", " ", "-", "c", " ", "0", "-">> \o IntStr(t - 1) \o <<" ">>
                            [] call_wrapper = "mpi" ->
                                  <<"m", "p", "i", "r", "u", "n", " ", "-", "n", " ">> \o IntStr(p)
                                      \o <<" ", "-", "-", "b", "i", "n", "d", "-", "t", "o", " ", "c", "o", "r", "e", " ", "-", "-", "m", "a", "p", "-", "b", "y", " ", "s", "o", "c", "k", "e", "t", ":", "P", "E", "=">> \o IntStr(t) \o <<" ">>
        IN  \A n \in 0..(Len(lines) - 2) :
                LET p == experiment.processes[((n \div (S * E * K * T)) % P) + 1]
                    t == experiment.threads[((n \div (S * E * K)) % T) + 1]
                    base == BaseCommand(algorithm, LogDir(experiment.name, algorithm.name),
                                        experiment.graphs[(n \div (S * E * K * T * P)) + 1], p, t,
                                        experiment.ks[((n \div (S * E)) % K) + 1],
                                        experiment.epsilons[((n \div S) % E) + 1],
                                        experiment.seeds[(n % S) + 1])
                IN  /\ lines[n + 2] = timing \o limit \o call(p, t) \o base
                    /\ (experiment.timeout = 5 /\ time_cmd # <<>> /\ call_wrapper = "taskset" /\ t = 4)
                            => lines[n + 2] = time_cmd \o <<" ", "-", "v", " ", "t", "i", "m", "e", "o", "u", "t", " ", "-", "v", " ", "5", "m", " ", "t", "a", "s", "k", "s", "e", "t", " ", "-", "c", " ", "0", "-", "3", " ">> \o base

\* A script written with timeout 5, a time-cmd and the taskset wrapper with 4
\* threads.
C5_Witness ==
    /\ ScriptWritten
    /\ experiment.timeout = 5
    /\ time_cmd # <<>>
    /\ call_wrapper = "taskset"
    /\ experiment.threads = <<4>>
    /\ Len(files[CurrentScript]) >= 2

\* C6: a step in which fetch() is called (the identity is new) for an
\* algorithm whose branch has 40 characters and whose source directory exists
\* hands no git command to exec.
C6_PinnedFetchSkipped ==
    [][(/\ algorithm'.hash \in generated_sources'
        /\ algorithm'.hash \notin generated_sources
        /\ Len(algorithm'.branch) = 40
        /\ algorithm'.src_dir \in dirs)
            => \A k \in (Len(execs) + 1)..Len(execs') : execs'[k].program # "git"]_vars

\* fetch() was called for a pinned branch in an existing directory, and the
\* build went on.
C6_Witness ==
    /\ Len(console) >= 2
    /\ console[1].event = "skipping fetch"
    /\ Len(console[1].algorithm.branch) = 40
    /\ console[2].event = "build"
    /\ Len(execs) = 2

\* C7: reading an experiment table that has no graphs key ends the run with a
\* non-zero exit code, hands nothing to exec, logs no fetch or build, and
\* leaves no file under the experiment's script directory.
C7_MissingGraphs ==
    [][(pc = "main" /\ item < Len(data) /\ data[item + 1].table
            /\ ~data[item + 1].graphs.present)
        => /\ pc' = "exited"
           /\ exit_code' # 0
           /\ execs' = execs
           /\ console' = console
           /\ \A name \in DOMAIN files' :
                ~IsPrefix(<<".", "/", "s", "c", "r", "i", "p", "t", "s", "/">> \o ExperimentName(item + 1) \o <<"/">>, name)]_vars

\* The second experiment has no graphs key: the run ended there, with the
\* scripts of the first experiment in place.
C7_Witness ==
    /\ pc = "exited"
    /\ exit_code = 1
    /\ error = "graphs"
    /\ item = 2
    /\ data[2].table
    /\ ~data[2].graphs.present
    /\ StarterName(ExperimentName(1)) \in executable

\* C8: when a run completes, every file it wrote has been handed to
\* make_executable.
C8_AllExecutable ==
    (pc = "exited" /\ exit_code = 0) => \A name \in DOMAIN files : name \in executable

\* C9: a run whose call-wrapper is none of "none", "taskset" and "mpi" ends
\* with exit code 1.
C9_UnknownCallWrapperFatal ==
    (pc = "exited" /\ call_wrapper \notin {"none", "taskset", "mpi"}) => exit_code = 1

\* C10: when the script of an algorithm is written, a build of its source
\* directory for its target has been handed to exec.
C10_TargetBuilt ==
    ScriptWritten =>
        \E k \in 1..Len(execs) :
            /\ execs[k].program = "cmake"
            /\ execs[k].verb = "build"
            /\ execs[k].dir = algorithm.src_dir
            /\ execs[k].arg = algorithm.target

====
